---- MODULE Spec2Model ----
(***************************************************************************)
(* Model of libavfilter/vf_static_mask.c: the static_mask video filter.    *)
(* State: the private context (static_maskContext), the heap blocks that   *)
(* config_input allocates and uninit releases, and the AVFrame that        *)
(* filter_frame mutates in place.  Frames are planar YUV 4:2:0 with        *)
(* linesize equal to the plane width.                                      *)
(***************************************************************************)
EXTENDS Integers, Sequences, FiniteSets, TLC

(* ---------------- bounds of the model ---------------- *)
MaxFrames == 3
MaxFrameBack == 2

(* ---------------- program constants ---------------- *)
SizeDefault == 20
SizeMin == 0
SizeMax == 600
ThresholdDefault == 20
ThresholdMin == 0
ThresholdMax == 1000
FrameBackDefault == 1
FrameBackMin == 1
FrameBackMax == 100
MaskY == 16
MaskU == 128
MaskV == 128
NormDiv == 10
ENOMEM == 12
LimbBase == 65536
LimbSign == 32768

NULL == 0
UNINIT == -1

(* ---------------- inputs ---------------- *)
\* values the user may hand to the option parser (some out of range)
SizeChoices == {-1, 0, 2, 4, 5, 601}
ThresholdChoices == {-1, 0, 5, 8, 1001}
FrameBackChoices == (0..MaxFrameBack) \cup {101}
\* geometries the host may configure the input link with
DimChoices == {<<4, 4>>, <<6, 1>>, <<5, 6>>}
\* host frames: luma l+i+j, U c+i/2, V c+j/2
LumaBase == {20, 24}
ChromaBase == {128, 200}
\* what an integer division by zero does on the build: SIGFPE (x86) or
\* a zero quotient (AArch64 sdiv)
DivZeroOutcomes == {"trap", "zero"}
\* what reading an uninitialised or freed pointer cell yields
JunkOutcomes == {"null", "garbage"}

VARIABLES
  lifecycle,      \* "new", "rejected", "inited", "configured", "failed", "torn"
  fault,          \* "none" or the undefined behaviour that ended the process
  size, threshold, frame_back,
  prev_sums,      \* pointer: NULL or the id of a heap block
  prev_width, prev_height,
  frame_count,
  w, h,           \* inlink->w, inlink->h
  heap,           \* sequence of blocks [live, cells]; a pointer is an index
  ret,            \* return value of the last config_input call
  frame,          \* the AVFrame handed downstream by the last filter_frame
  inputs,         \* history: the frames as the host delivered them
  compared,       \* history: per cell, the value the last call compared against
  sums,           \* history: per cell, the sum the last call computed
  masked,         \* history: per cell, the mask decision of the last call
  recorded,       \* history: the sums of every frame since setup
  visited,        \* history: per block of the last call, its origin and range_counter
  released,       \* history: per heap block, the number of av_free calls on it
  freed_unassigned, \* history: av_free was called on a slot pointer never assigned
  divzero,        \* history: which handler divided by zero ("none" if none)
  d_sum, d_prev,  \* operands of the comparison of line 85 taken alone
  d_out           \* [done, v]: its delta v once computed

vars == <<lifecycle, fault, size, threshold, frame_back, prev_sums, prev_width,
          prev_height, frame_count, w, h, heap, ret, frame, inputs, compared,
          sums, masked, recorded, visited, released, freed_unassigned, divzero,
          d_sum, d_prev, d_out>>

ctxVars == <<size, threshold, frame_back, prev_sums, prev_width, prev_height,
             frame_count>>
frameVars == <<frame, inputs, compared, sums, masked, recorded, visited>>
freeVars == <<released, freed_unassigned>>
deltaVars == <<d_sum, d_prev, d_out>>

(* ---------------- option ranges (static_mask_options) ---------------- *)
\* av_opt_set on an AV_OPT_TYPE_INT / DOUBLE option: accepted iff min <= v <= max
SizeAccepted(v) == SizeMin <= v /\ v <= SizeMax
ThresholdAccepted(v) == ThresholdMin <= v /\ v <= ThresholdMax
FrameBackAccepted(v) == FrameBackMin <= v /\ v <= FrameBackMax

(* ---------------- C arithmetic ---------------- *)
\* a / b for a >= 0, b >= 0; b = 0 only reached with the "zero" outcome
CDiv(a, b) == IF b = 0 THEN 0 ELSE a \div b
\* a % b with the sign of the dividend
CRem(a, b) == IF a < 0 /\ a % b # 0 THEN (a % b) - b ELSE a % b

\* a uint64_t as four 16-bit limbs, least significant first
ToU64(n) == <<n % LimbBase, (n \div LimbBase) % LimbBase, 0, 0>>
\* a - b in uint64_t arithmetic (wraps modulo 2^64)
SubU64(a, b) ==
  LET d1 == a[1] - b[1]
      c1 == IF d1 < 0 THEN 1 ELSE 0
      d2 == a[2] - b[2] - c1
      c2 == IF d2 < 0 THEN 1 ELSE 0
      d3 == a[3] - b[3] - c2
      c3 == IF d3 < 0 THEN 1 ELSE 0
      d4 == a[4] - b[4] - c3
  IN <<d1 + c1 * LimbBase, d2 + c2 * LimbBase, d3 + c3 * LimbBase,
       d4 + (IF d4 < 0 THEN LimbBase ELSE 0)>>
\* conversion of a uint64_t to int: the low 32 bits, two's complement
U64ToInt(u) ==
  IF u[2] >= LimbSign THEN (u[2] - LimbBase) * LimbBase + u[1]
  ELSE u[2] * LimbBase + u[1]
AbsIntId(i) == i
AbsInt(i) == IF i < 0 THEN -i ELSE i
\* abs(sum - s->prev_sums[buffer_index][range_counter])
Delta(sum, prev) == AbsInt(U64ToInt(SubU64(ToU64(sum), ToU64(prev))))

(* ---------------- frames ---------------- *)
ChromaW(width) == (width + 1) \div 2
ChromaH(height) == (height + 1) \div 2
\* a frame of the host: three flat planes, linesize = plane width
HostFrame(width, height, l, c) ==
  [Y |-> [k \in 0..(width * height - 1) |-> l + (k % width) + (k \div width)],
   U |-> [k \in 0..(ChromaW(width) * ChromaH(height) - 1) |-> c + (k % ChromaW(width))],
   V |-> [k \in 0..(ChromaW(width) * ChromaH(height) - 1) |-> c + (k \div ChromaW(width))]]

(* ---------------- filter_frame: one block ---------------- *)
\* the pixels (i, j) the block loops visit: j < y + size && j < height, likewise i
BlockPixelsUnclipped(x, y, bs, width, height) ==
  (x..(x + bs - 1)) \X (y..(y + bs - 1))
BlockPixels(x, y, bs, width, height) ==
  {p \in (x..(x + bs - 1)) \X (y..(y + bs - 1)) : p[1] < width /\ p[2] < height}
\* the plane offsets the loops address for pixel (i, j)
LumaAt(p, width) == p[2] * width + p[1]
ChromaAt(p, width) == (p[2] \div 2) * ChromaW(width) + (p[1] \div 2)

RECURSIVE SumPixels(_, _, _)
SumPixels(data, P, width) ==
  IF P = {} THEN 0
  ELSE LET p == CHOOSE q \in P : TRUE
       IN data.Y[LumaAt(p, width)] + data.U[ChromaAt(p, width)]
          + data.V[ChromaAt(p, width)] + SumPixels(data, P \ {p}, width)

\* the three stores of the masking loops
MaskBlock(data, P, width) ==
  LET ys == {LumaAt(p, width) : p \in P}
      cs == {ChromaAt(p, width) : p \in P}
  IN [Y |-> [k \in DOMAIN data.Y |-> IF k \in ys THEN MaskY ELSE data.Y[k]],
      U |-> [k \in DOMAIN data.U |-> IF k \in cs THEN MaskU ELSE data.U[k]],
      V |-> [k \in DOMAIN data.V |-> IF k \in cs THEN MaskV ELSE data.V[k]]]

\* int buffer_index = s->frame_count % s->frame_back
BufferIndexFirst(fc, fb) == 0
BufferIndexNext(fc, fb) == CRem(fc + 1, fb)
BufferIndex(fc, fb) == CRem(fc, fb)

\* s->size * s->size / 10
DivisorNoNorm(bs) == bs * bs
Divisor(bs) == (bs * bs) \div NormDiv

\* the comparison of line 85: quotient < threshold
IsStaticLeq(sum, prev, bs, thr) == CDiv(Delta(sum, prev), Divisor(bs)) <= thr
IsStatic(sum, prev, bs, thr) == CDiv(Delta(sum, prev), Divisor(bs)) < thr

\* the value line 96 leaves in prev_sums[buffer_index][range_counter]
StoredUnlessMasked(m, sum, old) == IF m THEN old ELSE sum
Stored(m, sum, old) == sum

\* every sample the loops address for the pixels P lies inside its plane
InFrame(P, width, height) ==
  \A p \in P :
    /\ 0 <= p[1] /\ p[1] < width /\ 0 <= p[2] /\ p[2] < height
    /\ p[1] \div 2 < ChromaW(width) /\ p[2] \div 2 < ChromaH(height)

\* one iteration of the x loop body.  st: [data, slot, rc, compared, sums, masked,
\* visited, fault, divzero]; env: [size, threshold, width, height, dz]
DoBlock(st, x, y, env) ==
  LET P == BlockPixels(x, y, env.size, env.width, env.height)
      sum == SumPixels(st.data, P, env.width)
  IN IF ~InFrame(P, env.width, env.height)
     THEN [st EXCEPT !.fault = "oob_frame"]
     ELSE IF st.rc \notin DOMAIN st.slot
     THEN [st EXCEPT !.fault = "oob"]
     ELSE LET prev == st.slot[st.rc]
              dzero == Divisor(env.size) = 0
              m == IsStatic(sum, prev, env.size, env.threshold)
          IN IF dzero /\ env.dz = "trap"
             THEN [st EXCEPT !.fault = "sigfpe", !.divzero = TRUE]
             ELSE [data |-> IF m THEN MaskBlock(st.data, P, env.width) ELSE st.data,
                   slot |-> [st.slot EXCEPT ![st.rc] = Stored(m, sum, prev)],
                   rc |-> st.rc + 1,
                   compared |-> Append(st.compared, prev),
                   sums |-> Append(st.sums, sum),
                   masked |-> Append(st.masked, m),
                   visited |-> Append(st.visited, [x |-> x, y |-> y, rc |-> st.rc]),
                   fault |-> "none",
                   divzero |-> st.divzero \/ dzero]

\* the y and x loops of lines 72-99
RECURSIVE RunBlocks(_, _, _, _)
RunBlocks(st, x, y, env) ==
  IF y >= env.height THEN st
  ELSE IF x >= env.width THEN RunBlocks(st, 0, y + env.size, env)
  ELSE LET st2 == DoBlock(st, x, y, env)
       IN IF st2.fault # "none" THEN st2
          ELSE RunBlocks(st2, x + env.size, y, env)

(* ---------------- memory ---------------- *)
\* av_mallocz(n * sizeof(uint64_t)): n zeroed entries
MallocNoZero(n) == [c \in 0..(n - 1) |-> 1]
Mallocz(n) == [c \in 0..(n - 1) |-> 0]

\* (n + s->size - 1) / s->size, the round-up division of lines 109-110
GridDimFloor(n, bs) == CDiv(n, bs)
GridDim(n, bs) == CDiv(n + bs - 1, bs)

\* s->frame_count++ on an int: past INT_MAX the stored value wraps
IntMax == 2147483647
IncInt(c) == IF c = IntMax THEN -IntMax - 1 ELSE c + 1

\* the ways the allocations of config_input can go
AllocOutcomes(k) ==
  {[kind |-> "ok", i |-> 0], [kind |-> "array", i |-> 0]}
    \cup {[kind |-> "slot", i |-> i] : i \in 0..(k - 1)}

\* av_free(p) on state st: [heap, released, fu, fault]
AvFree(st, p) ==
  IF p = NULL THEN st
  ELSE [st EXCEPT !.heap[p].live = FALSE,
                  !.released[p] = @ + 1,
                  !.fault = IF st.heap[p].live THEN "none" ELSE "double_free"]

\* the loop of lines 131-133 from index i on; cells: what prev_sums[i] reads as
RECURSIVE FreeSlots(_, _, _, _, _)
FreeSlots(st, i, k, arrLive, junk) ==
  IF i >= k \/ st.fault # "none" THEN st
  ELSE LET e == st.heap[prev_sums].cells[i]
       IN IF ~arrLive /\ junk = "garbage"
          THEN [st EXCEPT !.fault = "invalid_free"]
          ELSE IF e = UNINIT
          THEN FreeSlots([st EXCEPT !.fu = TRUE,
                                    !.fault = IF junk = "garbage" THEN "invalid_free"
                                              ELSE "none"],
                         i + 1, k, arrLive, junk)
          ELSE FreeSlots(AvFree(st, e), i + 1, k, arrLive, junk)

(* ---------------- the state machine ---------------- *)
NoFrame == [Y |-> <<>>, U |-> <<>>, V |-> <<>>]

InitFilter ==
  /\ lifecycle = "new"
  /\ fault = "none"
  /\ size = SizeDefault
  /\ threshold = ThresholdDefault
  /\ frame_back = FrameBackDefault
  /\ prev_sums = NULL
  /\ prev_width = 0
  /\ prev_height = 0
  /\ frame_count = 0
  /\ w = 0
  /\ h = 0
  /\ heap = <<>>
  /\ ret = 0
  /\ frame = NoFrame
  /\ inputs = <<>>
  /\ compared = <<>>
  /\ sums = <<>>
  /\ masked = <<>>
  /\ recorded = <<>>
  /\ visited = <<>>
  /\ released = <<>>
  /\ freed_unassigned = FALSE
  /\ divzero = "none"

Init ==
  /\ InitFilter
  /\ d_sum = 0
  /\ d_prev = 0
  /\ d_out = [done |-> FALSE, v |-> 0]

\* the host applies the user's options in table order; the first value out of
\* range fails the filter's creation
init ==
  /\ lifecycle = "new"
  /\ fault = "none"
  /\ \E sv \in SizeChoices, tv \in ThresholdChoices, fv \in FrameBackChoices :
       LET okS == SizeAccepted(sv)
           okT == okS /\ ThresholdAccepted(tv)
           okF == okT /\ FrameBackAccepted(fv)
       IN /\ size' = IF okS THEN sv ELSE size
          /\ threshold' = IF okT THEN tv ELSE threshold
          /\ frame_back' = IF okF THEN fv ELSE frame_back
          /\ lifecycle' = IF okF THEN "inited" ELSE "rejected"
  /\ UNCHANGED <<fault, prev_sums, prev_width, prev_height, frame_count, w, h,
                 heap, ret, divzero>>
  /\ UNCHANGED frameVars
  /\ UNCHANGED freeVars
  /\ UNCHANGED deltaVars

config_input ==
  /\ lifecycle = "inited"
  /\ fault = "none"
  /\ \E dim \in DimChoices, dz \in DivZeroOutcomes, out \in AllocOutcomes(frame_back) :
       /\ w' = dim[1]
       /\ h' = dim[2]
       /\ divzero' = IF size = 0 THEN "config_input" ELSE divzero
       /\ IF size = 0 /\ dz = "trap"
          THEN /\ fault' = "sigfpe"
               /\ UNCHANGED <<lifecycle, prev_sums, prev_width, prev_height,
                              frame_count, heap, ret, released>>
          ELSE LET pw == GridDim(dim[1], size)
                   ph == GridDim(dim[2], size)
                   arr == Len(heap) + 1
                   n == IF out.kind = "ok" THEN frame_back ELSE out.i
                   entries == [i \in 0..(frame_back - 1) |->
                                 IF i < n THEN arr + 1 + i
                                 ELSE IF i = n THEN NULL ELSE UNINIT]
                   blocks == <<[live |-> TRUE, cells |-> entries]>>
                               \o [i \in 1..n |-> [live |-> TRUE, cells |-> Mallocz(pw * ph)]]
               IN /\ prev_width' = pw
                  /\ prev_height' = ph
                  /\ prev_sums' = IF out.kind = "array" THEN NULL ELSE arr
                  /\ heap' = IF out.kind = "array" THEN heap ELSE heap \o blocks
                  /\ released' = IF out.kind = "array" THEN released
                                 ELSE released \o [i \in 1..(n + 1) |-> 0]
                  /\ frame_count' = IF out.kind = "ok" THEN 0 ELSE frame_count
                  /\ ret' = IF out.kind = "ok" THEN 0 ELSE -ENOMEM
                  /\ lifecycle' = IF out.kind = "ok" THEN "configured" ELSE "failed"
                  /\ fault' = fault
  /\ UNCHANGED <<size, threshold, frame_back, freed_unassigned>>
  /\ UNCHANGED frameVars
  /\ UNCHANGED deltaVars

filter_frame ==
  /\ lifecycle = "configured"
  /\ fault = "none"
  /\ Len(recorded) < MaxFrames
  /\ \E l \in LumaBase, c \in ChromaBase, dz \in DivZeroOutcomes :
       LET in == HostFrame(w, h, l, c)
           buffer_index == BufferIndex(frame_count, frame_back)
           inRing == buffer_index \in DOMAIN heap[prev_sums].cells
           slotp == heap[prev_sums].cells[buffer_index]
           env == [size |-> size, threshold |-> threshold, width |-> w,
                   height |-> h, dz |-> dz]
           st0 == [data |-> in, slot |-> heap[slotp].cells, rc |-> 0,
                   compared |-> <<>>, sums |-> <<>>, masked |-> <<>>,
                   visited |-> <<>>, fault |-> "none", divzero |-> FALSE]
           st == IF inRing THEN RunBlocks(st0, 0, 0, env)
                 ELSE [fault |-> "oob_slot", divzero |-> FALSE]
       IN /\ divzero' = IF st.divzero THEN "filter_frame" ELSE divzero
          /\ IF st.fault # "none"
             THEN /\ fault' = st.fault
                  /\ UNCHANGED <<heap, frame_count>>
                  /\ UNCHANGED frameVars
             ELSE /\ fault' = fault
                  /\ heap' = [heap EXCEPT ![slotp].cells = st.slot]
                  /\ frame_count' = IncInt(frame_count)
                  /\ frame' = st.data
                  /\ inputs' = Append(inputs, in)
                  /\ compared' = st.compared
                  /\ sums' = st.sums
                  /\ masked' = st.masked
                  /\ recorded' = Append(recorded, st.sums)
                  /\ visited' = st.visited
  /\ UNCHANGED <<lifecycle, size, threshold, frame_back, prev_sums, prev_width,
                 prev_height, w, h, ret>>
  /\ UNCHANGED freeVars
  /\ UNCHANGED deltaVars

uninit ==
  /\ fault = "none"
  /\ lifecycle' = "torn"
  /\ \E junk \in JunkOutcomes :
       IF prev_sums = NULL
       THEN UNCHANGED <<fault, heap, released, freed_unassigned>>
       ELSE LET st0 == [heap |-> heap, released |-> released,
                        fu |-> freed_unassigned, fault |-> "none"]
                st1 == FreeSlots(st0, 0, frame_back, heap[prev_sums].live, junk)
                st2 == IF st1.fault # "none" THEN st1 ELSE AvFree(st1, prev_sums)
            IN /\ heap' = st2.heap
               /\ released' = st2.released
               /\ freed_unassigned' = st2.fu
               /\ fault' = st2.fault
  /\ UNCHANGED ctxVars
  /\ UNCHANGED <<w, h, ret, divzero>>
  /\ UNCHANGED frameVars
  /\ UNCHANGED deltaVars

Next == init \/ config_input \/ filter_frame \/ uninit

Spec == Init /\ [][Next]_vars

(* ---------------- the comparison of line 85 on its own ---------------- *)
\* the largest aggregate sum: three 8-bit samples per pixel, size*size pixels
SampleMax == 255
MaxSum == 3 * SampleMax * SizeMax * SizeMax
SumSamples ==
  {0, 1, 3 * SampleMax, LimbBase - 1, LimbBase, LimbBase + 1, 2 * LimbBase - 1,
   MaxSum \div 2, MaxSum - LimbBase, MaxSum - 1, MaxSum}

InitDelta ==
  /\ InitFilter
  /\ d_sum \in SumSamples
  /\ d_prev \in SumSamples
  /\ d_out = [done |-> FALSE, v |-> 0]

apply_delta ==
  /\ ~d_out.done
  /\ d_out' = [done |-> TRUE, v |-> Delta(d_sum, d_prev)]
  /\ UNCHANGED <<lifecycle, fault, w, h, heap, ret, divzero, d_sum, d_prev>>
  /\ UNCHANGED ctxVars
  /\ UNCHANGED frameVars
  /\ UNCHANGED freeVars

NextDelta == apply_delta

SpecDelta == InitDelta /\ [][NextDelta]_vars

(* ---------------- a filter that has run for INT_MAX frames ---------------- *)
\* block sizes of the long run: even and >= 4, so that the sums in the ring do
\* not depend on the order of masking
LongRunSizes == {4}
\* the sums filter_frame records for a host frame under an even block size
HostSums(width, height, bs, l, c) ==
  [k \in 0..(GridDim(width, bs) * GridDim(height, bs) - 1) |->
     SumPixels(HostFrame(width, height, l, c),
               BlockPixels((k % GridDim(width, bs)) * bs,
                           (k \div GridDim(width, bs)) * bs, bs, width, height),
               width)]

\* the state after INT_MAX frames, the last frame_back of them with one content
InitLong ==
  /\ lifecycle = "configured"
  /\ fault = "none"
  /\ size \in LongRunSizes
  /\ threshold \in {t \in ThresholdChoices : ThresholdAccepted(t)}
  /\ frame_back \in {k \in FrameBackChoices : FrameBackAccepted(k)}
  /\ \E dim \in DimChoices : w = dim[1] /\ h = dim[2]
  /\ prev_width = GridDim(w, size)
  /\ prev_height = GridDim(h, size)
  /\ prev_sums = 1
  /\ frame_count = IntMax
  /\ \E l \in LumaBase, c \in ChromaBase :
       heap = <<[live |-> TRUE, cells |-> [i \in 0..(frame_back - 1) |-> i + 2]]>>
                \o [i \in 1..frame_back |->
                      [live |-> TRUE, cells |-> HostSums(w, h, size, l, c)]]
  /\ released = [i \in 1..(frame_back + 1) |-> 0]
  /\ ret = 0
  /\ frame = NoFrame
  /\ inputs = <<>>
  /\ compared = <<>>
  /\ sums = <<>>
  /\ masked = <<>>
  /\ recorded = <<>>
  /\ visited = <<>>
  /\ freed_unassigned = FALSE
  /\ divzero = "none"
  /\ d_sum = 0
  /\ d_prev = 0
  /\ d_out = [done |-> FALSE, v |-> 0]

NextLong == filter_frame

SpecLong == InitLong /\ [][NextLong]_vars

(* ---------------- properties ---------------- *)
Cells == 0..(prev_width * prev_height - 1)
\* the pixels of grid cell c
CellPixels(c) ==
  BlockPixels((c % prev_width) * size, (c \div prev_width) * size, size, w, h)
\* the ring slot with index i
Slot(i) == heap[heap[prev_sums].cells[i]].cells
LastInput == inputs[Len(inputs)]
AllMasked == \A i \in 1..Len(masked) : masked[i]

\* C1: at frame n >= K (n = frame_count - 1 once the call has returned) every cell
\* was compared against the sum recorded for that cell during frame n - K.
C1_RingReuse ==
  frame_count > frame_back => compared = recorded[frame_count - frame_back]

\* a frame n >= K with K >= 2 whose predecessor n - 1 recorded other sums than n - K
C1_Witness ==
  /\ divzero = "none"
  /\ frame_back >= 2
  /\ frame_count > frame_back
  /\ recorded[frame_count - frame_back] # recorded[frame_count - 1]
  /\ compared = recorded[frame_count - frame_back]

\* C2: after a frame, a masked block is (16, 128, 128) throughout and an unmasked
\* block holds exactly the samples the host delivered.
C2_MaskedOrUntouched ==
  (frame_count > 0 /\ Len(masked) = prev_width * prev_height) =>
    \A c \in Cells : \A p \in CellPixels(c) :
      IF masked[c + 1]
      THEN /\ frame.Y[LumaAt(p, w)] = MaskY
           /\ frame.U[ChromaAt(p, w)] = MaskU
           /\ frame.V[ChromaAt(p, w)] = MaskV
      ELSE /\ frame.Y[LumaAt(p, w)] = LastInput.Y[LumaAt(p, w)]
           /\ frame.U[ChromaAt(p, w)] = LastInput.U[ChromaAt(p, w)]
           /\ frame.V[ChromaAt(p, w)] = LastInput.V[ChromaAt(p, w)]

\* C3: when the last K + 1 delivered frames have identical content and the
\* threshold is positive, every block of the last frame is masked.
C3_UnchangedIsMasked ==
  (/\ threshold > 0
   /\ frame_count > frame_back
   /\ \A k \in (frame_count - frame_back)..frame_count : inputs[k] = LastInput)
  => AllMasked

\* C4: with a positive block size, no heap block (slot or slot array) is passed
\* to av_free twice, whatever the sequence of setup and teardown calls.
C4_NoDoubleRelease ==
  size > 0 =>
    /\ fault # "double_free"
    /\ \A b \in DOMAIN released : released[b] <= 1

\* C5: a setup that fails returns the allocation error, and (with a positive
\* block size) the teardown that follows releases exactly the blocks setup allocated and passes no unassigned
\* slot pointer to av_free.
C5_FailedSetupTeardown ==
  /\ (lifecycle = "failed") => (ret = -ENOMEM)
  /\ (size > 0 /\ lifecycle = "torn" /\ ret = -ENOMEM) =>
       /\ ~freed_unassigned
       /\ fault = "none"
       /\ \A b \in DOMAIN released : released[b] = 1

\* C6: every accepted configuration has size in [1, 600], frame_back in [1, 100]
\* and threshold in [0, 1000].
C6_OptionsInRange ==
  lifecycle \in {"inited", "configured", "failed"} =>
    /\ 1 <= size /\ size <= SizeMax
    /\ FrameBackMin <= frame_back /\ frame_back <= FrameBackMax
    /\ ThresholdMin <= threshold /\ threshold <= ThresholdMax

\* C7: filter_frame never performs an integer division by zero.
C7_NoDivisionByZero == divzero # "filter_frame"

\* C8: size 2, threshold 5, frame_back 1, 4x4 frames: the first call leaves every
\* block unmasked and the ring holds its sums; a second call with the same
\* content masks every block and the frame is (16, 128, 128) throughout.
C8_Scenario ==
  (size = 2 /\ threshold = 5 /\ frame_back = 1 /\ w = 4 /\ h = 4
   /\ lifecycle = "configured") =>
    /\ fault = "none"
    /\ (frame_count = 1) =>
         /\ \A i \in 1..Len(masked) : ~masked[i]
         /\ \A c \in Cells : Slot(0)[c] = sums[c + 1]
    /\ (frame_count = 2 /\ inputs[1] = inputs[2]) =>
         /\ AllMasked
         /\ \A k \in DOMAIN frame.Y : frame.Y[k] = MaskY
         /\ \A k \in DOMAIN frame.U : frame.U[k] = MaskU /\ frame.V[k] = MaskV

\* C9: after frame n the ring entry of slot n mod K holds, for every cell, the
\* sum computed for that cell during frame n, masked or not.
C9_UnconditionalOverwrite ==
  (lifecycle = "configured" /\ frame_count > 0) =>
    /\ Len(sums) = prev_width * prev_height
    /\ \A c \in Cells : Slot((frame_count - 1) % frame_back)[c] = sums[c + 1]

\* a frame with a masked cell whose new sum differs from the one it replaced
C9_Witness ==
  /\ divzero = "none"
  /\ lifecycle = "configured"
  /\ frame_count > 0
  /\ \E c \in Cells :
       /\ masked[c + 1]
       /\ sums[c + 1] # compared[c + 1]
       /\ Slot((frame_count - 1) % frame_back)[c] = sums[c + 1]
  /\ \E c \in Cells : ~masked[c + 1]

\* C10: during the first K frames after setup every cell is compared against 0.
C10_FirstFramesAgainstZero ==
  (1 <= frame_count /\ frame_count <= frame_back) =>
    \A i \in 1..Len(compared) : compared[i] = 0

\* the second frame of a ring of two slots, after a first frame with nonzero sums
C10_Witness ==
  /\ divzero = "none"
  /\ frame_back >= 2
  /\ frame_count = 2
  /\ \E i \in 1..Len(compared) : recorded[1][i] > 0 /\ compared[i] = 0

\* the least q with q * d >= n
Ceil(n, d) == CHOOSE q \in 0..n : q * d >= n /\ (q - 1) * d < n

\* C11: for a positive block size the blocks of a call tile the frame (every pixel
\* in exactly one block), the range_counter of the block at origin (x, y) is
\* (y/size)*gridWidth + x/size and stays below gridWidth*gridHeight, with
\* gridWidth = ceil(w/size) and gridHeight = ceil(h/size).
C11_TilingAndCells ==
  (size >= 1 /\ lifecycle = "configured") =>
    /\ fault # "oob"
    /\ prev_width = Ceil(w, size)
    /\ prev_height = Ceil(h, size)
    /\ Len(visited) > 0 =>
         /\ \A k \in 1..Len(visited) :
              /\ visited[k].rc = (visited[k].y \div size) * Ceil(w, size)
                                   + (visited[k].x \div size)
              /\ visited[k].rc < Ceil(w, size) * Ceil(h, size)
         /\ \A p \in (0..(w - 1)) \X (0..(h - 1)) :
              Cardinality({k \in 1..Len(visited) :
                 p \in BlockPixels(visited[k].x, visited[k].y, size, w, h)}) = 1

\* a returned call over a grid of at least 2 x 2 cells with clipped edge blocks
C11_Witness ==
  /\ divzero = "none"
  /\ lifecycle = "configured"
  /\ prev_width >= 2
  /\ prev_height >= 2
  /\ w % size # 0
  /\ h % size # 0
  /\ Len(visited) = prev_width * prev_height
  /\ visited[Len(visited)].rc = prev_width * prev_height - 1

\* C12: every luma coordinate (i, j) a call reads or writes has 0 <= i < w and
\* 0 <= j < h, and every chroma coordinate (i/2, j/2) lies inside a plane of
\* ceil(w/2) by ceil(h/2) samples, also when w or h is no multiple of size.
C12_AccessInBounds ==
  /\ fault # "oob_frame"
  /\ \A k \in 1..Len(visited) :
       \A p \in BlockPixels(visited[k].x, visited[k].y, size, w, h) :
         /\ 0 <= p[1] /\ p[1] < w
         /\ 0 <= p[2] /\ p[2] < h
         /\ p[1] \div 2 < Ceil(w, 2)
         /\ p[2] \div 2 < Ceil(h, 2)
         /\ LumaAt(p, w) \in DOMAIN frame.Y
         /\ ChromaAt(p, w) \in DOMAIN frame.U
         /\ ChromaAt(p, w) \in DOMAIN frame.V

\* a returned call on a frame of odd width whose last block is clipped in both
\* directions
C12_Witness ==
  /\ divzero = "none"
  /\ fault = "none"
  /\ w % 2 = 1
  /\ w % size # 0
  /\ h % size # 0
  /\ Len(visited) > 1
  /\ LET b == visited[Len(visited)]
         P == BlockPixels(b.x, b.y, size, w, h)
     IN /\ b.x + size > w
        /\ b.y + size > h
        /\ P # {}
        /\ Cardinality(P) < size * size

AbsDiff(a, b) == IF a >= b THEN a - b ELSE b - a

\* C13: where the divisor size*size/10 is not zero, a block is masked exactly when
\* |sum - previous| divided by that divisor (integer division, nominal size also
\* for clipped blocks) is strictly below the threshold.
C13_MaskDecision ==
  ((size * size) \div 10 > 0) =>
    \A i \in 1..Len(masked) :
      masked[i] <=>
        (AbsDiff(sums[i], compared[i]) \div ((size * size) \div 10) < threshold)

\* a clipped edge block whose quotient equals the threshold and is left unmasked
C13_Witness ==
  /\ divzero = "none"
  /\ threshold > 0
  /\ (size * size) \div 10 > 0
  /\ Len(masked) = prev_width * prev_height
  /\ \E c \in Cells :
       /\ Cardinality(CellPixels(c)) < size * size
       /\ AbsDiff(sums[c + 1], compared[c + 1]) \div ((size * size) \div 10) = threshold
       /\ ~masked[c + 1]

\* C14: for every accepted configuration with a positive size every call of filter_frame returns after
\* visiting each block once and has advanced frame_count by one, so that after n
\* frames since setup frame_count is n.
C14_EveryCallAdvances ==
  (lifecycle = "configured" /\ size >= 1) =>
    /\ fault = "none"
    /\ frame_count = Len(recorded)
    /\ Len(recorded) > 0 => Len(visited) = prev_width * prev_height

\* C15: the delta of the code, abs() of the 64-bit unsigned difference converted
\* to int, is the true |sum - previous| for all sums up to 3*255*600*600, which
\* is below 2^31.
C15_DeltaIsAbsDiff ==
  /\ MaxSum <= IntMax
  /\ d_out.done => d_out.v = AbsDiff(d_sum, d_prev)

\* the largest wrap: sum 0 against the largest previous sum
C15_Witness ==
  /\ d_out.done
  /\ d_sum = 0
  /\ d_prev = MaxSum
  /\ d_out.v = MaxSum

\* C16: the sum recorded for a block, and with it the mask decision, is that of
\* the block's samples as the host delivered them, whatever was masked earlier
\* in the same call.
C16_BlockIndependence ==
  (Len(sums) > 0 /\ Len(sums) = prev_width * prev_height) =>
    \A c \in Cells :
      /\ sums[c + 1] = SumPixels(LastInput, CellPixels(c), w)
      /\ masked[c + 1] <=>
           IsStatic(SumPixels(LastInput, CellPixels(c), w), compared[c + 1],
                    size, threshold)

\* C17: the ring index frame_count % frame_back of every call is in 0..K-1, also
\* after frame_count has passed INT_MAX.
C17_RingIndexInRange ==
  lifecycle = "configured" =>
    /\ fault # "oob_slot"
    /\ BufferIndex(frame_count, frame_back) \in 0..(frame_back - 1)

\* C18: a call of filter_frame on frame n writes slot n mod K only: the other
\* slots, the slot array, the grid dimensions, size, threshold and frame_back are
\* as before the call.
SlotAfter(i) == heap'[heap'[prev_sums'].cells[i]].cells
C18_FrameEffect ==
  [][(Len(recorded') = Len(recorded) + 1) =>
       /\ \A i \in 0..(frame_back - 1) :
            i # frame_count % frame_back => SlotAfter(i) = Slot(i)
       /\ \A c \in Cells : SlotAfter(frame_count % frame_back)[c] = sums'[c + 1]
       /\ heap'[prev_sums] = heap[prev_sums]
       /\ prev_sums' = prev_sums
       /\ prev_width' = prev_width
       /\ prev_height' = prev_height
       /\ size' = size
       /\ threshold' = threshold
       /\ frame_back' = frame_back]_vars

\* after two frames of different content into a ring of several slots, the slot
\* of the frame before the last still holds that frame's sums
C18_Witness ==
  /\ divzero = "none"
  /\ lifecycle = "configured"
  /\ frame_back >= 2
  /\ frame_count >= 2
  /\ recorded[frame_count - 1] # recorded[frame_count]
  /\ \A c \in Cells :
       /\ Slot((frame_count - 2) % frame_back)[c] = recorded[frame_count - 1][c + 1]
       /\ Slot((frame_count - 1) % frame_back)[c] = recorded[frame_count][c + 1]

\* C19: with threshold 0 no block is masked: the frame handed downstream is the
\* frame the host delivered, and the ring holds the sums of the frame.
C19_ThresholdZero ==
  (threshold = 0 /\ lifecycle = "configured" /\ frame_count > 0) =>
    /\ \A i \in 1..Len(masked) : ~masked[i]
    /\ frame = LastInput
    /\ \A c \in Cells : Slot((frame_count - 1) % frame_back)[c] = sums[c + 1]

\* a second frame identical to the first, threshold 0: delta 0 and yet unmasked
C19_Witness ==
  /\ divzero = "none"
  /\ threshold = 0
  /\ lifecycle = "configured"
  /\ frame_count >= 2
  /\ inputs[frame_count] = inputs[frame_count - 1]
  /\ frame_back = 1
  /\ compared = sums
  /\ frame = LastInput

====
